---- MODULE Spec2Model ----
(***************************************************************************)
(* Model of the /chat request pipeline of app.py: input validation,        *)
(* provider selection, content adaptation, token-budget estimation, the    *)
(* HTTP call to the backend and the normalisation of its response.         *)
(*                                                                         *)
(* Text is a sequence of one-character strings.  The character "xFF"       *)
(* stands for a byte that is not valid UTF-8.                              *)
(***************************************************************************)
EXTENDS Integers, Sequences, FiniteSets, TLC

\* ------------------------------------------------------------------ bounds
\* Number of /chat requests one run of the server is followed through.
MaxRequests == 2

\* --------------------------------------------------------------- constants
MAX_FILE_SIZE == 16 * 1024 * 1024

\* csv_rows = "unknown" (the value before any extraction, and chat's default)
UNKNOWN_ROWS == -1

TOKEN_LIMITS ==
    [n \in {"gpt-4", "gpt-4-32k", "gpt-4o", "gpt-4-turbo", "gpt-35-turbo",
            "gpt-35-turbo-16k"} |->
        CASE n = "gpt-4" -> 8192
          [] n = "gpt-4-32k" -> 32768
          [] n = "gpt-4o" -> 50000
          [] n = "gpt-4-turbo" -> 128000
          [] n = "gpt-35-turbo" -> 4096
          [] n = "gpt-35-turbo-16k" -> 16385]

DEFAULT_TOKEN_LIMIT == 50000
MESSAGE_OVERHEAD == 10
max_response_tokens == 2000

\* ------------------------------------------------------------------- text
NL == "\n"
COMMA == ","
BADBYTE == "xFF"

\* str.lower() on the characters that occur in the modelled file names
LowerChar(c) ==
    CASE c = "C" -> "c"
      [] c = "S" -> "s"
      [] c = "V" -> "v"
      [] c = "D" -> "d"
      [] OTHER -> c

Lower(s) == [i \in 1..Len(s) |-> LowerChar(s[i])]

EndsWith(s, suffix) ==
    /\ Len(s) >= Len(suffix)
    /\ SubSeq(s, Len(s) - Len(suffix) + 1, Len(s)) = suffix

DOT_CSV == <<".", "c", "s", "v">>

\* filename.lower().endswith('.csv')
IsCsvName(filename) == EndsWith(Lower(filename), DOT_CSV)

\* Mutant: the decode ignores invalid bytes (errors='ignore')
DecodesLeniently(bytes) == TRUE

\* bytes.decode('utf-8') succeeds
DecodesAsUtf8(bytes) == \A i \in 1..Len(bytes) : bytes[i] # BADBYTE

\* str.split(sep): the pieces between the separators, empty pieces kept
RECURSIVE SplitFrom(_, _, _, _)
SplitFrom(s, sep, i, cur) ==
    IF i > Len(s) THEN <<cur>>
    ELSE IF s[i] = sep THEN <<cur>> \o SplitFrom(s, sep, i + 1, <<>>)
    ELSE SplitFrom(s, sep, i + 1, Append(cur, s[i]))

Split(s, sep) == SplitFrom(s, sep, 1, <<>>)

IsSpace(c) == c \in {" ", NL}

\* str.strip()
RECURSIVE LStrip(_)
LStrip(s) == IF s # <<>> /\ IsSpace(Head(s)) THEN LStrip(Tail(s)) ELSE s

RECURSIVE RStrip(_)
RStrip(s) ==
    IF s # <<>> /\ IsSpace(s[Len(s)]) THEN RStrip(SubSeq(s, 1, Len(s) - 1)) ELSE s

Strip(s) == LStrip(RStrip(s))

\* ------------------------------------------------------------------ inputs
\* An uploaded file is `head` followed by `fill` further digit characters,
\* which lengthen the last cell of the last data row: they change the size
\* of the file and neither its rows nor its columns.
FileSize(f) == Len(f.head) + f.fill

HEADER_ONLY == <<"a", COMMA, "b">>
TWO_ROWS == <<"a", COMMA, "b", NL, "1", COMMA, "2", NL, "3", COMMA, "4">>
BAD_ROWS == <<"a", COMMA, "b", NL, BADBYTE, COMMA, "2">>

Heads ==
    { <<>>,
      HEADER_ONLY,
      Append(HEADER_ONLY, NL),
      TWO_ROWS,
      Append(TWO_ROWS, NL),
      BAD_ROWS }

Files ==
    [head : Heads, fill : {0}]
    \cup [head : {TWO_ROWS}, fill : {MAX_FILE_SIZE - Len(TWO_ROWS),
                                     MAX_FILE_SIZE - Len(TWO_ROWS) + 1}]

NoFile == [head |-> <<>>, fill |-> 0]

Filenames ==
    { <<>>,
      <<"d", ".", "c", "s", "v">>,
      <<"D", ".", "C", "S", "V">>,
      <<"d", ".", "t", "x", "t">>,
      <<"c", "s", "v">> }

\* request.form['question'], a text of which the handler uses nothing but
\* its place in the prompts: it is represented by its length in tokens, 0
\* for the empty question.  The handler sets no limit on that length.
Questions == {0, 4, 5898, 6090, 6091, 6898, 47898, 47899}

\* The multipart request: hasFile is ('file' in request.files), hasQuestion
\* is ('question' in request.form).
Requests ==
    [hasFile : {TRUE}, file : Files, filename : Filenames,
     hasQuestion : {TRUE}, question : Questions]
    \cup [hasFile : {FALSE}, file : {NoFile}, filename : {<<>>},
          hasQuestion : BOOLEAN, question : {0}]
    \cup [hasFile : {TRUE}, file : {[head |-> TWO_ROWS, fill |-> 0]},
          filename : {<<"d", ".", "c", "s", "v">>},
          hasQuestion : {FALSE}, question : {0}]

NoRequest ==
    [hasFile |-> FALSE, file |-> NoFile, filename |-> <<>>,
     hasQuestion |-> FALSE, question |-> 0]

\* os.getenv(name): "" stands for an unset or empty variable (both are falsy)
EnvValues == {"", "key"}

DeploymentNames == {"gpt-4", "gpt-4o", "prod-chat"}

Environments ==
    [AZURE_OPENAI_API_KEY : EnvValues,
     AZURE_OPENAI_ENDPOINT : EnvValues,
     ANTHROPIC_API_KEY : EnvValues,
     OPENAI_API_KEY : EnvValues,
     GOOGLE_API_KEY : EnvValues,
     AZURE_OPENAI_DEPLOYMENT_NAME : DeploymentNames]

Truthy(v) == v # ""


\* ------------------------------------------------------ provider selection
\* Mutant: openai is tried before anthropic
ProviderOpenAIFirst(e) ==
    IF Truthy(e.AZURE_OPENAI_API_KEY) THEN "azure_openai"
    ELSE IF Truthy(e.OPENAI_API_KEY) THEN "openai"
    ELSE IF Truthy(e.ANTHROPIC_API_KEY) THEN "anthropic"
    ELSE IF Truthy(e.GOOGLE_API_KEY) THEN "google"
    ELSE "None"

determine_llm_provider(e) ==
    IF Truthy(e.AZURE_OPENAI_API_KEY) THEN "azure_openai"
    ELSE IF Truthy(e.ANTHROPIC_API_KEY) THEN "anthropic"
    ELSE IF Truthy(e.OPENAI_API_KEY) THEN "openai"
    ELSE IF Truthy(e.GOOGLE_API_KEY) THEN "google"
    ELSE "None"

\* ------------------------------------------------------ content adaptation
NonBlank(lines) == SelectSeq(lines, LAMBDA l : l # <<>>)

\* pd.read_csv(BytesIO(file_content)) raises: pandas cannot be imported, the
\* bytes are not UTF-8, or the buffer holds no line to take columns from.
ReadCsvFails(pandasInstalled, bytes) ==
    \/ ~pandasInstalled
    \/ ~DecodesAsUtf8(bytes)
    \/ NonBlank(Split(bytes, NL)) = <<>>

\* len(df) and df.columns.tolist() of the frame read_csv returns: the first
\* non-blank line is the header, every further non-blank line is a row.
StructuredRows(bytes) == Len(NonBlank(Split(bytes, NL))) - 1
StructuredColumns(bytes) == Split(NonBlank(Split(bytes, NL))[1], COMMA)

\* The raw-text fallback: lines = csv_text.split('\n')
RawRows(csv_text) == Len(Split(csv_text, NL)) - 1
RawColumns(csv_text) ==
    LET cols == Split(Split(csv_text, NL)[1], COMMA)
    IN  [i \in 1..Len(cols) |-> Strip(cols[i])]

NoAdaptation ==
    [shape |-> "none", method |-> "none", csv_rows |-> UNKNOWN_ROWS,
     csv_columns |-> <<>>]

\* call_azure_openai_api, from the initialisation of csv_rows to data_summary
AzureAdapt(pandasInstalled, bytes) ==
    IF ~ReadCsvFails(pandasInstalled, bytes)
    THEN [shape |-> "ExtractedText", method |-> "structured",
          csv_rows |-> StructuredRows(bytes),
          csv_columns |-> StructuredColumns(bytes)]
    ELSE IF DecodesAsUtf8(bytes)
    THEN [shape |-> "ExtractedText", method |-> "raw",
          csv_rows |-> RawRows(bytes), csv_columns |-> RawColumns(bytes)]
    ELSE [shape |-> "failed", method |-> "raw", csv_rows |-> UNKNOWN_ROWS,
          csv_columns |-> <<>>]

\* call_openai_api and call_google_api: csv_text = file_content.decode('utf-8')
TextAdapt(bytes) ==
    IF DecodesAsUtf8(bytes)
    THEN [shape |-> "ExtractedText", method |-> "decoded",
          csv_rows |-> UNKNOWN_ROWS, csv_columns |-> <<>>]
    ELSE [shape |-> "failed", method |-> "decoded", csv_rows |-> UNKNOWN_ROWS,
          csv_columns |-> <<>>]

\* call_anthropic_api: base64 of the bytes as a document part, nothing read
DirectAdapt ==
    [shape |-> "DirectDocument", method |-> "base64",
     csv_rows |-> UNKNOWN_ROWS, csv_columns |-> <<>>]

\* ------------------------------------------------------------ token budget
\* len(encoding.encode(text)) is the tokenizer's answer.  It is stood for by
\* a fixed count for each fixed text (the system prompt; the user prompt's
\* template with the data summary's frame), one token per four bytes of file
\* content in the data summary, and the question's own length.
SYSTEM_PROMPT_TOKENS == 42
USER_FRAME_TOKENS == 48
BYTES_PER_TOKEN == 4

UserPromptTokens(file, question) ==
    USER_FRAME_TOKENS + (FileSize(file) \div BYTES_PER_TOKEN) + question

\* import tiktoken fails ("missing"), tiktoken raises while loading the
\* encoding or encoding ("error"), or it counts ("ok")
TiktokenBehaviours == {"missing", "error", "ok"}

TotalInputTokens(system_tokens, user_tokens) ==
    system_tokens + user_tokens + MESSAGE_OVERHEAD

TotalTokensNeeded(system_tokens, user_tokens) ==
    TotalInputTokens(system_tokens, user_tokens) + max_response_tokens

ModelLimit(deployment_name) ==
    IF deployment_name \in DOMAIN TOKEN_LIMITS
    THEN TOKEN_LIMITS[deployment_name]
    ELSE DEFAULT_TOKEN_LIMIT

\* Mutant: a total equal to the limit is rejected too
ExceedsOrMeetsLimit(total_tokens_needed, model_limit) ==
    total_tokens_needed >= model_limit

ExceedsLimit(total_tokens_needed, model_limit) ==
    total_tokens_needed > model_limit

ExcessTokens(total_tokens_needed, model_limit) ==
    total_tokens_needed - model_limit

NoEstimate ==
    [outcome |-> "none", system_tokens |-> 0, user_tokens |-> 0,
     total_tokens_needed |-> 0, model_limit |-> 0, excess_tokens |-> 0]

\* Mutant: the token analysis block is left out
TokenAnalysisLeftOut(tiktoken, system_tokens, user_tokens, deployment_name) ==
    NoEstimate

\* The try block that counts tokens, up to the raise of TOKEN_LIMIT_EXCEEDED
TokenAnalysis(tiktoken, system_tokens, user_tokens, deployment_name) ==
    IF tiktoken = "missing" THEN [NoEstimate EXCEPT !.outcome = "ImportError"]
    ELSE IF tiktoken = "error" THEN [NoEstimate EXCEPT !.outcome = "error"]
    ELSE LET total == TotalTokensNeeded(system_tokens, user_tokens)
             limit == ModelLimit(deployment_name)
             over == ExceedsLimit(total, limit)
         IN  [outcome |-> IF over THEN "TOKEN_LIMIT_EXCEEDED" ELSE "within",
              system_tokens |-> system_tokens,
              user_tokens |-> user_tokens,
              total_tokens_needed |-> total,
              model_limit |-> limit,
              excess_tokens |-> IF over THEN ExcessTokens(total, limit) ELSE 0]

\* except ImportError / except Exception as token_error: both handlers print
\* and fall through, so no outcome of the try block leaves the function.
TokenOutcomeRaises(outcome) == FALSE


\* ------------------------------------------------------------- the backend
\* What requests.post gives: an exception (timeout, connection failure) or
\* a response.  A "malformed" body is JSON without the answer field path.
BackendOutcomes ==
    { [kind |-> "transport", status_code |-> 0, text |-> ""],
      [kind |-> "http", status_code |-> 200, text |-> "answer"],
      [kind |-> "http", status_code |-> 200, text |-> "malformed"],
      [kind |-> "http", status_code |-> 201, text |-> "answer"],
      [kind |-> "http", status_code |-> 429, text |-> "rate limited"],
      [kind |-> "http", status_code |-> 500, text |-> "server error"] }

NoOutcome == [kind |-> "none", status_code |-> 0, text |-> ""]

\* Mutant: only 5xx statuses are taken for errors
OnlyServerErrors(status_code) == status_code >= 500

\* if response.status_code != 200: raise Exception(...)
StatusIsError(status_code) == status_code # 200

\* result["content"][0]["text"], result["choices"][0]["message"]["content"],
\* result["candidates"][0]["content"]["parts"][0]["text"]: the lookup raises
\* KeyError or IndexError when the path is absent, and no handler in the
\* provider function catches it.
AnswerLookup(text) ==
    IF text = "malformed"
    THEN [raised |-> "KeyError", answer |-> ""]
    ELSE [raised |-> "", answer |-> text]

\* processing_info.processing_method as the provider function sets it
OwnProcessingMethod(p) ==
    IF p = "azure_openai" THEN "full_content_extraction" ELSE "unset"

\* chat: processing_method per branch, written over the result
ChatProcessingMethod(p) ==
    CASE p = "azure_openai" -> "extracted_content"
      [] p = "anthropic" -> "direct_file_upload"
      [] p = "openai" -> "text_extraction"
      [] p = "google" -> "text_extraction"

\* Mutant: chat keeps the method the provider function set, when it set one
KeptProcessingMethod(p, own) ==
    IF own # "unset" THEN own ELSE ChatProcessingMethod(p)

\* chat: result["processing_info"]["processing_method"] = processing_method,
\* a plain assignment over whatever the provider function put there (own)
WrittenProcessingMethod(p, own) == ChatProcessingMethod(p)

\* ----------------------------------------------------------------- replies
INPUT_ERROR_STATUS == 400
NO_PROVIDER_STATUS == 500
LLM_ERROR_STATUS == 500
OK_STATUS == 200

NoResponse ==
    [status |-> 0, error |-> "", detail |-> "", upstream_status |-> 0,
     upstream_text |-> "", answer |-> "", csv_rows |-> UNKNOWN_ROWS,
     csv_columns |-> <<>>, processing_method |-> "", provider_used |-> ""]

InputError(msg) ==
    [NoResponse EXCEPT !.status = INPUT_ERROR_STATUS, !.error = msg]

\* Mutant: the missing provider is reported as a client error
NoProviderAsInputError == InputError("No supported LLM provider configured")

NoProviderError ==
    [NoResponse EXCEPT !.status = NO_PROVIDER_STATUS,
                       !.error = "No supported LLM provider configured"]

\* except Exception as e: "Error calling LLM API: {str(e)}", 500
LlmError(detail, status_code, text) ==
    [NoResponse EXCEPT !.status = LLM_ERROR_STATUS,
                       !.error = "Error calling LLM API",
                       !.detail = detail,
                       !.upstream_status = status_code,
                       !.upstream_text = text]

Success(p, answer, a) ==
    [NoResponse EXCEPT !.status = OK_STATUS,
                       !.answer = answer,
                       !.csv_rows = a.csv_rows,
                       !.csv_columns = a.csv_columns,
                       !.processing_method =
                           WrittenProcessingMethod(p, OwnProcessingMethod(p)),
                       !.provider_used = p]

\* chat, the checks before the file is read: "" when the request passes
ValidationError(r) ==
    IF ~r.hasFile THEN "No file provided"
    ELSE IF ~r.hasQuestion THEN "No question provided"
    ELSE IF r.filename = <<>> THEN "No file selected"
    ELSE IF ~IsCsvName(r.filename) THEN "Only CSV files are supported"
    ELSE IF FileSize(r.file) > MAX_FILE_SIZE THEN "File size exceeds 16MB limit"
    ELSE ""

\* ------------------------------------------------------------------- state
VARIABLES
    env,        \* the process environment, fixed for the life of the process
    pc,         \* where the server, then the request in hand, stands
    served,     \* /chat requests received so far
    req,        \* the request in hand
    provider,   \* determine_llm_provider()'s answer for the request in hand
    adapt,      \* what content adaptation produced
    est,        \* what the token analysis produced
    httpCalls,  \* requests.post calls issued for the request in hand
    upstream,   \* what the last requests.post gave
    resp,       \* the reply of chat
    trail       \* the stages the request in hand went through, in order

vars ==
    <<env, pc, served, req, provider, adapt, est, httpCalls, upstream, resp,
      trail>>

Init ==
    /\ env \in Environments
    /\ pc = "boot"
    /\ served = 0
    /\ req = NoRequest
    /\ provider = "None"
    /\ adapt = NoAdaptation
    /\ est = NoEstimate
    /\ httpCalls = 0
    /\ upstream = NoOutcome
    /\ resp = NoResponse
    /\ trail = <<>>

\* The request ends with reply r.
Reply(r) ==
    /\ resp' = r
    /\ pc' = "responded"

\* python app.py: the __main__ block refuses to start without a provider
RunMain ==
    /\ pc = "boot"
    /\ pc' = IF determine_llm_provider(env) = "None" THEN "exited" ELSE "idle"
    /\ UNCHANGED <<env, served, req, provider, adapt, est, httpCalls,
                   upstream, resp, trail>>

\* The module imported by a WSGI server: __name__ is not '__main__', the
\* routes are registered and no provider check runs.
ServeImported ==
    /\ pc = "boot"
    /\ pc' = "idle"
    /\ UNCHANGED <<env, served, req, provider, adapt, est, httpCalls,
                   upstream, resp, trail>>

\* chat, from the first check to file.read()
ChatValidate ==
    /\ pc = "idle"
    /\ served < MaxRequests
    /\ \E r \in Requests :
        /\ req' = r
        /\ IF ValidationError(r) # ""
           THEN Reply(InputError(ValidationError(r)))
           ELSE /\ pc' = "selecting"
                /\ UNCHANGED resp
    /\ served' = served + 1
    /\ trail' = <<"validate">>
    /\ UNCHANGED <<env, provider, adapt, est, httpCalls, upstream>>

\* chat returns its reply: the request's locals are gone and the server
\* waits for the next request.
FinishRequest ==
    /\ pc = "responded"
    /\ pc' = "idle"
    /\ req' = NoRequest
    /\ provider' = "None"
    /\ adapt' = NoAdaptation
    /\ est' = NoEstimate
    /\ httpCalls' = 0
    /\ upstream' = NoOutcome
    /\ resp' = NoResponse
    /\ trail' = <<>>
    /\ UNCHANGED <<env, served>>

\* chat: provider = determine_llm_provider(), and the else branch
SelectProvider ==
    /\ pc = "selecting"
    /\ provider' = determine_llm_provider(env)
    /\ trail' = Append(trail, "select")
    /\ IF provider' = "None"
       THEN Reply(NoProviderError)
       ELSE /\ pc' = "calling"
            /\ UNCHANGED resp
    /\ UNCHANGED <<env, served, req, adapt, est, httpCalls, upstream>>


\* call_anthropic_api up to the payload: the key check, then the document
CallAnthropic ==
    /\ pc = "calling"
    /\ provider = "anthropic"
    /\ IF ~Truthy(env.ANTHROPIC_API_KEY)
       THEN /\ Reply(LlmError("ANTHROPIC_API_KEY not found", 0, ""))
            /\ UNCHANGED <<adapt, trail>>
       ELSE /\ adapt' = DirectAdapt
            /\ trail' = Append(trail, "adapt")
            /\ pc' = "posting"
            /\ UNCHANGED resp
    /\ UNCHANGED <<env, served, req, provider, est, httpCalls, upstream>>

\* call_azure_openai_api up to data_summary: the key and endpoint check,
\* structured extraction, the raw-text fallback
CallAzureExtract ==
    /\ pc = "calling"
    /\ provider = "azure_openai"
    /\ IF ~Truthy(env.AZURE_OPENAI_API_KEY) \/ ~Truthy(env.AZURE_OPENAI_ENDPOINT)
       THEN /\ Reply(LlmError(
                   "AZURE_OPENAI_API_KEY and AZURE_OPENAI_ENDPOINT required",
                   0, ""))
            /\ UNCHANGED <<adapt, trail>>
       ELSE \E pandasInstalled \in BOOLEAN :
            /\ adapt' = AzureAdapt(pandasInstalled, req.file.head)
            /\ trail' = Append(trail, "adapt")
            /\ IF adapt'.shape = "failed"
               THEN Reply(LlmError("Unable to process CSV file", 0, ""))
               ELSE /\ pc' = "estimating"
                    /\ UNCHANGED resp
    /\ UNCHANGED <<env, served, req, provider, est, httpCalls, upstream>>

\* call_azure_openai_api: the token-counting try block and its handlers
AzureTokenAnalysis ==
    /\ pc = "estimating"
    /\ \E tiktoken \in TiktokenBehaviours :
        est' = TokenAnalysis(tiktoken, SYSTEM_PROMPT_TOKENS,
                             UserPromptTokens(req.file, req.question),
                             env.AZURE_OPENAI_DEPLOYMENT_NAME)
    /\ trail' = IF est'.outcome \in {"within", "TOKEN_LIMIT_EXCEEDED"}
                THEN Append(trail, "estimate")
                ELSE trail
    /\ IF TokenOutcomeRaises(est'.outcome)
       THEN Reply(LlmError(est'.outcome, 0, ""))
       ELSE /\ pc' = "posting"
            /\ UNCHANGED resp
    /\ UNCHANGED <<env, served, req, provider, adapt, httpCalls, upstream>>

\* call_openai_api up to the payload: the key check, then the decode
CallOpenAI ==
    /\ pc = "calling"
    /\ provider = "openai"
    /\ IF ~Truthy(env.OPENAI_API_KEY)
       THEN /\ Reply(LlmError("OPENAI_API_KEY not found", 0, ""))
            /\ UNCHANGED <<adapt, trail>>
       ELSE /\ adapt' = TextAdapt(req.file.head)
            /\ trail' = Append(trail, "adapt")
            /\ IF adapt'.shape = "failed"
               THEN Reply(LlmError("Unable to decode CSV file as UTF-8", 0, ""))
               ELSE /\ pc' = "posting"
                    /\ UNCHANGED resp
    /\ UNCHANGED <<env, served, req, provider, est, httpCalls, upstream>>

\* call_google_api up to the payload: the key check, then the decode
CallGoogle ==
    /\ pc = "calling"
    /\ provider = "google"
    /\ IF ~Truthy(env.GOOGLE_API_KEY)
       THEN /\ Reply(LlmError("GOOGLE_API_KEY not found", 0, ""))
            /\ UNCHANGED <<adapt, trail>>
       ELSE /\ adapt' = TextAdapt(req.file.head)
            /\ trail' = Append(trail, "adapt")
            /\ IF adapt'.shape = "failed"
               THEN Reply(LlmError("Unable to decode CSV file as UTF-8", 0, ""))
               ELSE /\ pc' = "posting"
                    /\ UNCHANGED resp
    /\ UNCHANGED <<env, served, req, provider, est, httpCalls, upstream>>

\* requests.post(...) is issued
PostRequest ==
    /\ pc = "posting"
    /\ httpCalls' = httpCalls + 1
    /\ trail' = Append(trail, "post")
    /\ pc' = "awaiting"
    /\ UNCHANGED <<env, served, req, provider, adapt, est, upstream, resp>>

\* What follows requests.post in the provider function and in chat: the
\* status check, the answer lookup, the processing method, the reply.
AfterPost(p, a, o) ==
    IF o.kind = "transport"
    THEN LlmError("transport", 0, "")
    ELSE IF StatusIsError(o.status_code)
    THEN LlmError("API error", o.status_code, o.text)
    ELSE IF AnswerLookup(o.text).raised # ""
    THEN LlmError(AnswerLookup(o.text).raised, 0, "")
    ELSE Success(p, AnswerLookup(o.text).answer, a)

\* requests.post returns or raises, and the request runs to its reply
ReceiveResponse ==
    /\ pc = "awaiting"
    /\ \E o \in BackendOutcomes :
        /\ upstream' = o
        /\ Reply(AfterPost(provider, adapt, o))
    /\ trail' = Append(trail, "response")
    /\ UNCHANGED <<env, served, req, provider, adapt, est, httpCalls>>

Next ==
    \/ RunMain
    \/ ServeImported
    \/ ChatValidate
    \/ SelectProvider
    \/ CallAnthropic
    \/ CallAzureExtract
    \/ AzureTokenAnalysis
    \/ CallOpenAI
    \/ CallGoogle
    \/ PostRequest
    \/ ReceiveResponse
    \/ FinishRequest

Spec == Init /\ [][Next]_vars


\* ------------------------------------------------------------------ claims
InTrail(stage) == \E i \in 1..Len(trail) : trail[i] = stage

\* Position of a stage in the trail, 0 when the request did not pass it
StageIndex(stage) ==
    IF InTrail(stage)
    THEN CHOOSE i \in 1..Len(trail) : trail[i] = stage
    ELSE 0

PRIORITY == <<"azure_openai", "anthropic", "openai", "google">>

CredentialOf(e, p) ==
    CASE p = "azure_openai" -> e.AZURE_OPENAI_API_KEY
      [] p = "anthropic" -> e.ANTHROPIC_API_KEY
      [] p = "openai" -> e.OPENAI_API_KEY
      [] p = "google" -> e.GOOGLE_API_KEY

HasCredential(e, p) == CredentialOf(e, p) = "key"

NoCredential(e) == \A i \in 1..4 : ~HasCredential(e, PRIORITY[i])

\* C1: once the provider is selected, it is the first provider of the order
\* azure_openai > anthropic > openai > google whose credential is present,
\* and it is None exactly when no credential is present.
C1_HighestPriorityProvider ==
    InTrail("select") =>
        /\ (provider = "None") <=> NoCredential(env)
        /\ provider # "None" =>
            \E i \in 1..4 :
                /\ provider = PRIORITY[i]
                /\ HasCredential(env, PRIORITY[i])
                /\ \A j \in 1..(i - 1) : ~HasCredential(env, PRIORITY[j])

\* A lower-priority provider is selected past absent higher ones while a
\* still lower one is configured too.
C1_Witness ==
    /\ InTrail("select")
    /\ provider = "openai"
    /\ env.GOOGLE_API_KEY = "key"
    /\ env.AZURE_OPENAI_API_KEY = ""
    /\ env.ANTHROPIC_API_KEY = ""

\* C2: when token counting ran and the estimated total exceeds the model
\* limit, no HTTP request is issued and the request ends in the
\* TOKEN_LIMIT_EXCEEDED failure.
C2_ExceededNeverDispatched ==
    (est.outcome \in {"within", "TOKEN_LIMIT_EXCEEDED"}
        /\ est.total_tokens_needed > est.model_limit) =>
        /\ httpCalls = 0
        /\ pc = "responded" =>
            (resp.status = 500 /\ resp.detail = "TOKEN_LIMIT_EXCEEDED")

ExtractedTextProviders == {"azure_openai", "openai", "google"}

\* C3 as claimed: every dispatched request of azure_openai, openai or google
\* has counted tokens after adaptation and before the HTTP call, and an
\* anthropic request never counts tokens.
C3_EveryExtractedTextValidated ==
    /\ (provider \in ExtractedTextProviders /\ InTrail("post")) =>
        /\ InTrail("estimate")
        /\ StageIndex("adapt") < StageIndex("estimate")
        /\ StageIndex("estimate") < StageIndex("post")
    /\ provider = "anthropic" => ~InTrail("estimate")

\* C3 amended: tokens are counted only in azure_openai requests, after
\* adaptation and before the HTTP call; every dispatched azure_openai
\* request went through the token analysis, which counts unless tiktoken
\* cannot be imported or raises; anthropic, openai and google requests never
\* count tokens.
C3_OnlyAzureCountsTokens ==
    /\ provider \in {"anthropic", "openai", "google"} =>
        (~InTrail("estimate") /\ est.outcome = "none")
    /\ InTrail("estimate") =>
        /\ provider = "azure_openai"
        /\ adapt.shape = "ExtractedText"
        /\ 0 < StageIndex("adapt")
        /\ StageIndex("adapt") < StageIndex("estimate")
        /\ InTrail("post") => StageIndex("estimate") < StageIndex("post")
    /\ (provider = "azure_openai" /\ InTrail("post")) =>
        /\ est.outcome # "none"
        /\ est.outcome \notin {"ImportError", "error"} => InTrail("estimate")

\* A dispatched azure_openai request that counted tokens between adaptation
\* and the HTTP call.
C3_Witness ==
    /\ provider = "azure_openai"
    /\ trail = <<"validate", "select", "adapt", "estimate", "post">>
    /\ httpCalls = 1

\* C4: a request makes at most one HTTP call, and a response whose status
\* is not 2xx ends the request at once in a 500 reply that carries that
\* status code and body.
C4_OneCallNoRetry ==
    /\ httpCalls <= 1
    /\ (InTrail("response") /\ upstream.kind = "http"
            /\ (upstream.status_code < 200 \/ upstream.status_code > 299)) =>
        /\ pc = "responded"
        /\ httpCalls = 1
        /\ resp.status = 500
        /\ resp.upstream_status = upstream.status_code
        /\ resp.upstream_text = upstream.text

\* A 429 answered with the upstream error after a single call.
C4_Witness ==
    /\ pc = "responded"
    /\ upstream.status_code = 429
    /\ resp.upstream_status = 429
    /\ resp.upstream_text = "rate limited"
    /\ httpCalls = 1

\* The limit the claim gives for a deployment name
ClaimedLimit(name) ==
    CASE name = "gpt-4" -> 8192
      [] name = "gpt-4o" -> 50000
      [] OTHER -> 50000

C6_MalformedResponseIsDistinct ==
    (pc = "responded" /\ upstream.kind = "http" /\ upstream.status_code = 200
        /\ upstream.text = "malformed") =>
        /\ resp.status = 500
        /\ resp.detail = "MalformedResponse"

\* The data rows and header fields of a CSV text: the lines after the first
\* that are not empty, and the fields of the first line.
TrueRowCount(bytes) == Len(NonBlank(Tail(Split(bytes, NL))))
TrueColumns(bytes) ==
    IF bytes = <<>> THEN <<>> ELSE Split(Head(Split(bytes, NL)), COMMA)

\* C7: a successful reply to a request served by structured extraction or
\* by the raw-text fallback reports the number of data rows of the file and
\* its header fields in order.
C7_RowsAndColumnsReported ==
    (pc = "responded" /\ resp.status = 200
        /\ adapt.method \in {"structured", "raw"}
        /\ req.file.head # <<>>) =>
        /\ resp.csv_rows = TrueRowCount(req.file.head)
        /\ resp.csv_columns = TrueColumns(req.file.head)

\* The requests the claim calls invalid
ClaimedInvalid(r) ==
    \/ ~r.hasFile
    \/ ~r.hasQuestion
    \/ r.question = 0
    \/ r.filename \notin {<<"d", ".", "c", "s", "v">>, <<"D", ".", "C", "S", "V">>}
    \/ Len(r.file.head) + r.file.fill > 16777216

\* C8: an invalid request (no file, no or empty question, empty or non-csv
\* file name, more than 16 MiB) is answered 400 before provider selection
\* and before any backend call.
C8_InvalidInputRejected ==
    (served > 0 /\ pc # "idle" /\ ClaimedInvalid(req)) =>
        /\ pc = "responded"
        /\ resp.status = 400
        /\ ~InTrail("select")
        /\ httpCalls = 0

\* C9: with no credential configured every request that passes validation is
\* refused with a 500 reply and no backend call, on every request; and a
\* request that fails after validation (no provider, upstream status other
\* than success, transport failure) is answered 500-class.
C9_NoProviderAndFailuresAre500 ==
    /\ (InTrail("select") /\ NoCredential(env)) =>
        /\ pc = "responded"
        /\ resp.status = 500
        /\ httpCalls = 0
        /\ ~InTrail("post")
    /\ (pc = "responded" /\ InTrail("select")
            /\ (\/ provider = "None"
                \/ upstream.kind = "transport"
                \/ (upstream.kind = "http" /\ upstream.status_code # 200))) =>
        (resp.status >= 500 /\ resp.status <= 599)

\* The second request of a server that has no credential is refused too.
C9_Witness ==
    /\ NoCredential(env)
    /\ served = 2
    /\ pc = "responded"
    /\ InTrail("select")
    /\ resp.status = 500
    /\ resp.error = "No supported LLM provider configured"

HasBadByte(bytes) == \E i \in 1..Len(bytes) : bytes[i] = "xFF"

\* C10: for azure_openai, openai and google a file that is not valid UTF-8
\* ends the request, once adaptation ran, in a decode failure with no HTTP
\* call; for azure_openai the failure is the raw-text fallback's, reached
\* after structured extraction failed.
C10_DecodeFailureIsFinal ==
    (InTrail("adapt") /\ provider \in ExtractedTextProviders
        /\ HasBadByte(req.file.head)) =>
        /\ pc = "responded"
        /\ resp.status = 500
        /\ httpCalls = 0
        /\ ~InTrail("post")
        /\ adapt.shape = "failed"
        /\ provider = "azure_openai" =>
            (adapt.method = "raw" /\ resp.detail = "Unable to process CSV file")
        /\ provider # "azure_openai" =>
            resp.detail = "Unable to decode CSV file as UTF-8"

\* An azure_openai request with a non-UTF-8 file refused after the fallback.
C10_Witness ==
    /\ provider = "azure_openai"
    /\ HasBadByte(req.file.head)
    /\ pc = "responded"
    /\ adapt.method = "raw"
    /\ resp.detail = "Unable to process CSV file"

\* The method the claim gives for a provider
ClaimedMethod(p) ==
    CASE p = "anthropic" -> "direct_file_upload"
      [] p = "azure_openai" -> "extracted_content"
      [] OTHER -> "text_extraction"

OnlyAnthropicConfigured(e) ==
    /\ e.ANTHROPIC_API_KEY = "key"
    /\ e.AZURE_OPENAI_API_KEY = ""
    /\ e.OPENAI_API_KEY = ""
    /\ e.GOOGLE_API_KEY = ""

\* C11: a successful reply carries one of the three processing methods, the
\* one of the selected provider (anthropic direct_file_upload, azure_openai
\* extracted_content, openai and google text_extraction), never the value
\* the provider function set itself; with the anthropic credential alone the
\* request selects anthropic, counts no tokens, and a success comes after
\* exactly one HTTP call with direct_file_upload.
C11_ProcessingMethodByProvider ==
    /\ (pc = "responded" /\ resp.status = 200) =>
        /\ resp.processing_method \in
               {"direct_file_upload", "text_extraction", "extracted_content"}
        /\ resp.processing_method = ClaimedMethod(provider)
        /\ resp.provider_used = provider
    /\ (InTrail("select") /\ OnlyAnthropicConfigured(env)) =>
        /\ provider = "anthropic"
        /\ est.outcome = "none"
        /\ ~InTrail("estimate")
        /\ httpCalls <= 1
        /\ (pc = "responded" /\ resp.status = 200) =>
            (httpCalls = 1 /\ resp.processing_method = "direct_file_upload")

\* The end-to-end case: a 2-row CSV, a question, the anthropic key alone.
C11_Witness ==
    /\ OnlyAnthropicConfigured(env)
    /\ req.file = [head |-> TWO_ROWS, fill |-> 0]
    /\ req.question = 4
    /\ pc = "responded"
    /\ resp.status = 200
    /\ httpCalls = 1
    /\ trail = <<"validate", "select", "adapt", "post", "response">>
    /\ resp.processing_method = "direct_file_upload"

\* The provider the claim expects when azure_openai does not count as
\* configured: the first of anthropic, openai, google with a credential
FallThroughProvider(e) ==
    IF \E i \in 2..4 : HasCredential(e, PRIORITY[i])
    THEN PRIORITY[CHOOSE i \in 2..4 :
                      /\ HasCredential(e, PRIORITY[i])
                      /\ \A j \in 2..(i - 1) : ~HasCredential(e, PRIORITY[j])]
    ELSE "None"

\* C12: azure_openai is selected only when both its key and its endpoint are
\* present; with the key present and the endpoint absent the selection is the
\* next provider in priority order that has a credential.
C12_AzureNeedsEndpointAndKey ==
    InTrail("select") =>
        /\ provider = "azure_openai" =>
            (env.AZURE_OPENAI_API_KEY = "key" /\ env.AZURE_OPENAI_ENDPOINT = "key")
        /\ (env.AZURE_OPENAI_API_KEY = "key" /\ env.AZURE_OPENAI_ENDPOINT = "") =>
            provider = FallThroughProvider(env)

\* C13: an azure_openai request reaches the HTTP call only when tiktoken
\* could not be imported or when the counted total is within the model
\* limit; no other outcome of the token-counting step lets it through.
C13_OnlyImportFailureSkipsValidation ==
    (provider = "azure_openai" /\ InTrail("post")) =>
        est.outcome \in {"ImportError", "within"}

====
